---- MODULE Spec2Model ----
(***************************************************************************)
(* The greeter's control loop (src/src/main.rs): the closure handed to     *)
(* event_loop.run_return, the state it captures, the greetd stream it      *)
(* writes requests to, and the single-slot response_queue filled by the    *)
(* stream dispatcher.                                                      *)
(*                                                                         *)
(* One call of the closure is two consecutive steps: the response part     *)
(* (lines 279-326, pc "idle" -> "event") and the event part (lines         *)
(* 327-523, pc "event" -> "idle").  The dispatcher runs between calls.     *)
(*                                                                         *)
(* What lies outside main.rs is modelled by what main.rs relies on:        *)
(*  - greetd answers the requests in the order they were written, with any *)
(*    Response; the success of start_session is Response::Finish;          *)
(*  - egui applies the text handed to on_event in its next frame, to the   *)
(*    text edit that holds the focus at the start of that frame;           *)
(*  - after a call that leaves ControlFlow::Exit the loop calls the        *)
(*    closure once more, with LoopDestroyed, and returns.                  *)
(* The window title, the clock, the background and '\x7F' are left out.    *)
(***************************************************************************)
EXTENDS Integers, Sequences, FiniteSets, TLC

\* ---------------------------------------------------------------- bounds
\* longest text held by a text buffer or by egui's pending input
MaxLen == 1
\* requests written to the stream whose response the closure has not taken
MaxInFlight == 2
\* entries of the session picker (environments.len())
NumEnv == 2

\* --------------------------------------------------------------- constants
\* characters the keyboard can produce besides the ones main.rs matches on
Chars == {"a"}
\* the wrapper path of line 299
Wrapper == "/etc/ly/wsetup.sh"
\* Option::None of the response slot
None == [type |-> "None", kind |-> "None", launch |-> FALSE, unrequested |-> FALSE]
\* command.value_of("username") when --username is not given
NoDefault == <<"--">>
\* the connection Greetd::new() opens at line 161, the only call of it
FirstConnection == 1
\* width of usize in bits on the smallest target rustc supports
UsizeBits == 16

Usize == 2 ^ UsizeBits

\* the exec lines of the desktop entries found at start (lines 245-263)
environments == [i \in 1..NumEnv |-> IF i = 1 THEN "exec1" ELSE IF i = 2 THEN "exec2" ELSE "exec3"]

VARIABLES
    defaults,           \* command.value_of("username"): NoDefault or a name
    connection,         \* the Greetd connection the binding `stream` holds
    focused,            \* FocusedField
    pending_focus,
    username,
    password,
    auth_message_type,  \* "None" or the kind of the last AuthMessage
    control_flow,       \* *control_flow
    current_env_index,
    current_env,        \* exec of the entry current_env refers to
    egui_focus,         \* the widget egui's memory gives keyboard focus to
    egui_events,        \* input handed to egui_glow.on_event, not yet run
    stream,             \* types of the requests written to the socket whose response is not read yet
    response_queue,     \* the Rc<RefCell<Option<Response>>> slot
    pc,                 \* "idle" | "event" | "done" | "panicked"
    exiting,            \* the loop has seen ControlFlow::Exit after a callback
    raw_mode,           \* crossterm raw mode is enabled
    lastSent,           \* history: requests written by the latest client step
    lastSubmit,         \* history: the field '\r' found focused in the latest event part
    iterResp            \* history: the response the current call of the closure took

vars == <<defaults, connection, focused, pending_focus, username, password,
          auth_message_type, control_flow, current_env_index,
          current_env, egui_focus, egui_events, stream,
          response_queue, pc, exiting, raw_mode, lastSent, lastSubmit,
          iterResp>>

\* the variables captured by the closure that hold the login form
form == <<focused, pending_focus, username, password, auth_message_type>>
picker == <<current_env_index, current_env>>
egui == <<egui_focus, egui_events>>
config == <<defaults, connection>>

\* ------------------------------------------------------------- requests
CreateSession(name) == [type |-> "create_session", some |-> TRUE, val |-> name]

PostAuthMessageResponse(some, text) == [type |-> "post_auth_message_response", some |-> some, val |-> text]

StartSession(cmd) == [type |-> "start_session", some |-> TRUE, val |-> cmd]

\* ------------------------------------------------------------ responses
\* a Response; the fields "launch" and "unrequested" are history: whether
\* the request greetd answers with it is a start_session, and whether it
\* answers no request at all
AuthMessage(kind) == [type |-> "AuthMessage", kind |-> kind, launch |-> FALSE, unrequested |-> FALSE]

Finish == [type |-> "Finish", kind |-> "None", launch |-> TRUE, unrequested |-> FALSE]

Success == [type |-> "Success", kind |-> "None", launch |-> FALSE, unrequested |-> FALSE]

Error(kind, launch) == [type |-> "Error", kind |-> kind, launch |-> launch, unrequested |-> FALSE]

AuthMessageTypes == {"Visible", "Secret", "Info", "Error"}

ErrorTypes == {"Error", "AuthError"}

\* requests whose response the closure has not taken from the slot yet
Outstanding == Len(stream) + (IF response_queue = None THEN 0 ELSE 1)

\* stream.create_session / authentication_response / start_session: write
\* the requests to the socket
Send(reqs) ==
    /\ reqs # <<>> => Len(stream) + Len(reqs) <= MaxInFlight
    /\ stream' = stream \o [i \in 1..Len(reqs) |-> reqs[i].type]
    /\ lastSent' = reqs

\* the requests written before the loop starts (lines 167-171)
StartupRequests(d) == IF d = NoDefault THEN <<>> ELSE <<CreateSession(d)>>

Init ==
    /\ defaults \in {NoDefault, <<"a">>}
    /\ connection = FirstConnection
    /\ focused = IF defaults = NoDefault THEN "Username" ELSE "Password"
    /\ pending_focus = TRUE
    /\ username = IF defaults = NoDefault THEN <<>> ELSE defaults
    /\ password = <<>>
    /\ auth_message_type = "None"
    /\ control_flow = "Poll"
    /\ current_env_index \in 0..(NumEnv - 1)
    /\ current_env = environments[current_env_index + 1]
    /\ egui_focus = "none"
    /\ egui_events = <<>>
    /\ stream = [i \in 1..Len(StartupRequests(defaults)) |-> StartupRequests(defaults)[i].type]
    /\ response_queue = None
    /\ pc = "idle"
    /\ exiting = FALSE
    /\ raw_mode = TRUE
    /\ lastSent = StartupRequests(defaults)
    /\ lastSubmit = "none"
    /\ iterResp = None

\* ------------------------------------------------- greetd and the dispatcher
\* what greetd may answer to a request; the client library reports the
\* success of start_session as Response::Finish (line 294)
Replies(type) ==
    IF type = "start_session"
    THEN {Finish} \cup {Error(k, TRUE) : k \in ErrorTypes}
    ELSE {Success} \cup {AuthMessage(k) : k \in AuthMessageTypes} \cup {Error(k, FALSE) : k \in ErrorTypes}

\* the stream dispatcher's callback (lines 233-240), run by the loop between
\* two calls of the closure when greetd's response to the oldest unanswered
\* request has arrived
StreamDispatch ==
    /\ pc = "idle"
    /\ stream # <<>>
    /\ IF response_queue # None
       THEN pc' = "panicked" /\ UNCHANGED response_queue
       ELSE (\E r \in Replies(Head(stream)) : response_queue' = r) /\ UNCHANGED pc
    /\ stream' = Tail(stream)
    /\ UNCHANGED <<config, form, control_flow, picker, egui, exiting, raw_mode,
                   lastSent, lastSubmit, iterResp>>

\* a Response read from the socket while no request is unanswered
Unrequested(r) == [r EXCEPT !.launch = FALSE, !.unrequested = TRUE]

\* the stream dispatcher's callback (lines 233-240), run when the socket
\* yields a Response although every request written has been answered and
\* the answer taken: the callback does not look at what was requested
StreamDispatchUnrequested ==
    /\ pc = "idle"
    /\ stream = <<>>
    /\ response_queue = None
    /\ \E r \in Replies("create_session") \cup Replies("start_session") :
          response_queue' = Unrequested(r)
    /\ UNCHANGED <<config, form, control_flow, picker, egui, exiting, raw_mode,
                   stream, pc, lastSent, lastSubmit, iterResp>>

\* ------------------------------------------- the closure, response part
\* line 279 finds the slot empty
NoResponse ==
    /\ pc = "idle"
    /\ response_queue = None
    /\ pc' = "event"
    /\ iterResp' = None
    /\ UNCHANGED lastSubmit
    /\ Send(<<>>)
    /\ UNCHANGED <<config, form, control_flow, picker, egui,
                   response_queue, exiting, raw_mode>>

\* an AuthMessage arm that acknowledges Info prompts only
AckRequests_InfoOnly(at) ==
    IF at = "Info" THEN <<PostAuthMessageResponse(FALSE, <<>>)>> ELSE <<>>

\* the requests the AuthMessage arm writes (lines 287-291)
AckRequests(at) ==
    IF at \in {"Info", "Error"} THEN <<PostAuthMessageResponse(FALSE, <<>>)>> ELSE <<>>

\* Response::AuthMessage (lines 281-293)
RespAuthMessage ==
    /\ pc = "idle"
    /\ response_queue.type = "AuthMessage"
    /\ auth_message_type' = response_queue.kind
    /\ Send(AckRequests(response_queue.kind))
    /\ iterResp' = response_queue
    /\ response_queue' = None
    /\ pc' = "event"
    /\ UNCHANGED lastSubmit
    /\ UNCHANGED <<config, focused, pending_focus, username, password,
                   control_flow, picker, egui, exiting, raw_mode>>

\* Response::Finish (lines 294-296)
RespFinish ==
    /\ pc = "idle"
    /\ response_queue.type = "Finish"
    /\ control_flow' = "Exit"
    /\ Send(<<>>)
    /\ iterResp' = response_queue
    /\ response_queue' = None
    /\ pc' = "event"
    /\ UNCHANGED lastSubmit
    /\ UNCHANGED <<config, form, picker, egui, exiting, raw_mode>>

\* a start_session that passes the session's command without the wrapper
StartCommand_NoWrapper(env) == <<env>>

\* the command sequence of line 299
StartCommand(env) == <<Wrapper, env>>

\* Response::Success (lines 297-301)
RespSuccess ==
    /\ pc = "idle"
    /\ response_queue.type = "Success"
    /\ Send(<<StartSession(StartCommand(current_env))>>)
    /\ iterResp' = response_queue
    /\ response_queue' = None
    /\ pc' = "event"
    /\ UNCHANGED lastSubmit
    /\ UNCHANGED <<config, form, control_flow, picker, egui, exiting,
                   raw_mode>>

\* an AuthError arm that does not issue create_session again
RetryRequests_None(d) == <<>>

\* the requests the AuthError arm writes (lines 316-320)
RetryRequests(d) == IF d = NoDefault THEN <<>> ELSE <<CreateSession(d)>>

\* an AuthError arm that leaves the focus on the password field
AuthErrorFocus_Password(d) == "Password"

\* the field the AuthError arm leaves the focus on (lines 310, 319)
AuthErrorFocus(d) == IF d = NoDefault THEN "Username" ELSE "Password"

\* Response::Error (lines 302-324)
RespError ==
    /\ pc = "idle"
    /\ response_queue.type = "Error"
    /\ IF response_queue.kind = "Error"
       THEN /\ Send(<<>>)
            /\ UNCHANGED <<focused, pending_focus, auth_message_type, username,
                           password>>
       ELSE /\ pending_focus' = TRUE
            /\ auth_message_type' = "None"
            /\ password' = <<>>
            /\ username' = (IF defaults = NoDefault THEN <<>> ELSE defaults)
            /\ focused' = AuthErrorFocus(defaults)
            /\ Send(RetryRequests(defaults))
    /\ iterResp' = response_queue
    /\ response_queue' = None
    /\ pc' = "event"
    /\ UNCHANGED lastSubmit
    /\ UNCHANGED <<config, control_flow, picker, egui, exiting,
                   raw_mode>>

\* --------------------------------------------- the closure, event part
\* the closure returns from an event other than LoopDestroyed, leaving cf in
\* *control_flow: on ControlFlow::Exit the loop stops taking events, and its
\* next and last call of the closure is the one for LoopDestroyed
EndCallback(cf) ==
    /\ ~exiting
    /\ control_flow' = cf
    /\ exiting' = (cf = "Exit")
    /\ iterResp' = None
    /\ pc' = "idle"

\* Event::LoopDestroyed (lines 328-335): the last call of the closure
LoopDestroyed ==
    /\ pc = "event"
    /\ exiting
    /\ raw_mode' = FALSE
    /\ pc' = "done"
    /\ iterResp' = None
    /\ lastSubmit' = "none"
    /\ Send(<<>>)
    /\ UNCHANGED <<config, form, control_flow, picker, egui,
                   response_queue, exiting>>

\* TextEdit: the widget that has focus appends the frame's text input
RECURSIVE ApplyEvents(_, _)
ApplyEvents(buf, evs) ==
    IF evs = <<>> THEN buf ELSE ApplyEvents(Append(buf, Head(evs)), Tail(evs))

\* lines 391-398
RedrawControlFlow(needs_repaint, cf) ==
    IF needs_repaint THEN "Poll" ELSE IF cf # "Exit" THEN "Wait" ELSE "Exit"

\* Event::RedrawRequested (lines 336-423): one egui frame, then control_flow
RedrawRequested(needs_repaint) ==
    /\ pc = "event"
    /\ LET shown == auth_message_type \in {"Visible", "Secret"}
           uFocus == pending_focus /\ focused = "Username"
           f1 == IF uFocus THEN "username" ELSE egui_focus
           pf1 == IF uFocus THEN FALSE ELSE pending_focus
           pFocus == shown /\ pf1 /\ focused = "Password"
           f2 == IF pFocus THEN "password" ELSE f1
       IN /\ username' = (IF egui_focus = "username" THEN ApplyEvents(username, egui_events) ELSE username)
          /\ password' = (IF shown /\ f1 = "password" THEN ApplyEvents(password, egui_events) ELSE password)
          /\ pending_focus' = (IF pFocus THEN FALSE ELSE pf1)
          /\ egui_focus' = (IF f2 = "password" /\ ~shown THEN "none" ELSE f2)
    /\ egui_events' = <<>>
    /\ EndCallback(RedrawControlFlow(needs_repaint, control_flow))
    /\ lastSubmit' = "none"
    /\ Send(<<>>)
    /\ UNCHANGED <<config, focused, auth_message_type, picker, response_queue,
                   raw_mode>>

\* Event::UserEvent (lines 424-426)
UserEvent ==
    /\ pc = "event"
    /\ EndCallback(control_flow)
    /\ lastSubmit' = "none"
    /\ Send(<<>>)
    /\ UNCHANGED <<config, form, picker, egui, response_queue,
                   raw_mode>>

\* WindowEvent::CloseRequested | Destroyed (lines 429-433, 517-520)
CloseRequested ==
    /\ pc = "event"
    /\ EndCallback("Exit")
    /\ lastSubmit' = "none"
    /\ Send(<<>>)
    /\ UNCHANGED <<config, form, picker, egui, response_queue,
                   raw_mode>>

\* a '\r' arm that answers the prompt without looking at the username
SubmitRequests_NoCheck(f, u, p) ==
    IF f = "Password" THEN <<PostAuthMessageResponse(TRUE, p)>> ELSE <<CreateSession(u)>>

\* the requests the '\r' arm writes (lines 449-463)
SubmitRequests(f, u, p) ==
    IF f = "Password"
    THEN (IF u = <<>> THEN <<>> ELSE <<PostAuthMessageResponse(TRUE, p)>>)
    ELSE <<CreateSession(u)>>

\* the field the '\r' arm leaves the focus on (lines 449-463)
SubmitFocus(f, u) ==
    IF f = "Password" THEN (IF u = <<>> THEN "Username" ELSE "Password") ELSE "Password"

\* ReceivedCharacter('\r') (lines 449-463)
EnterKey ==
    /\ pc = "event"
    /\ Send(SubmitRequests(focused, username, password))
    /\ focused' = SubmitFocus(focused, username)
    /\ pending_focus' = TRUE
    /\ EndCallback(control_flow)
    /\ lastSubmit' = focused
    /\ UNCHANGED <<config, username, password, auth_message_type, picker, egui,
                   response_queue, raw_mode>>

\* ReceivedCharacter('\t') (lines 464-470)
TabKey ==
    /\ pc = "event"
    /\ focused' = (IF focused = "Username" THEN "Password" ELSE "Username")
    /\ pending_focus' = TRUE
    /\ EndCallback(control_flow)
    /\ lastSubmit' = "none"
    /\ Send(<<>>)
    /\ UNCHANGED <<config, username, password, auth_message_type, picker, egui,
                   response_queue, raw_mode>>

\* the index '>' leaves (lines 472-478)
NextIndex(i) == IF i + 1 < NumEnv THEN i + 1 ELSE 0

\* ReceivedCharacter('>') (lines 471-479)
GreaterKey ==
    /\ pc = "event"
    /\ current_env_index' = NextIndex(current_env_index)
    /\ current_env' = environments[current_env_index' + 1]
    /\ EndCallback(control_flow)
    /\ lastSubmit' = "none"
    /\ Send(<<>>)
    /\ UNCHANGED <<config, form, egui, response_queue, raw_mode>>

\* the index '<' leaves where the subtraction wraps (lines 481-487)
PrevIndex(i) ==
    LET d == (i - 1) % Usize
    IN IF d < NumEnv THEN d ELSE NumEnv - 1

\* ReceivedCharacter('<') (lines 480-488); on index 0 line 481 overflows:
\* a build with overflow checks panics there, a build without them wraps
LessKey ==
    /\ pc = "event"
    /\ \/ /\ current_env_index = 0
          /\ ~exiting
          /\ pc' = "panicked"
          /\ UNCHANGED <<picker, control_flow, exiting, iterResp>>
       \/ /\ current_env_index' = PrevIndex(current_env_index)
          /\ current_env' = environments[current_env_index' + 1]
          /\ EndCallback(control_flow)
    /\ lastSubmit' = "none"
    /\ Send(<<>>)
    /\ UNCHANGED <<config, form, egui, response_queue, raw_mode>>

\* the buffer of the text edit that holds egui's keyboard focus: the one
\* the next frame appends the queued input to
FocusedText ==
    IF egui_focus = "username" THEN username
    ELSE IF egui_focus = "password" THEN password
    ELSE <<>>

\* ReceivedCharacter(c), c a text character (lines 513-515): the character
\* is queued for egui's next frame; the text is kept within MaxLen
CharKey(c) ==
    /\ pc = "event"
    /\ Len(egui_events) + Len(FocusedText) < MaxLen
    /\ egui_events' = Append(egui_events, c)
    /\ EndCallback(control_flow)
    /\ lastSubmit' = "none"
    /\ Send(<<>>)
    /\ UNCHANGED <<config, form, picker, egui_focus, response_queue,
                   raw_mode>>

\* every other event (lines 435-446, 522)
OtherEvent ==
    /\ pc = "event"
    /\ EndCallback(control_flow)
    /\ lastSubmit' = "none"
    /\ Send(<<>>)
    /\ UNCHANGED <<config, form, picker, egui, response_queue,
                   raw_mode>>

Next ==
    \/ StreamDispatch
    \/ NoResponse
    \/ RespAuthMessage
    \/ RespFinish
    \/ RespSuccess
    \/ RespError
    \/ LoopDestroyed
    \/ \E needs_repaint \in BOOLEAN : RedrawRequested(needs_repaint)
    \/ UserEvent
    \/ CloseRequested
    \/ EnterKey
    \/ TabKey
    \/ GreaterKey
    \/ LessKey
    \/ \E c \in Chars : CharKey(c)
    \/ OtherEvent

Spec == Init /\ [][Next]_vars

\* one call of the closure, first half: lines 279-326
ResponsePart ==
    NoResponse \/ RespAuthMessage \/ RespFinish \/ RespSuccess \/ RespError

\* one call of the closure, second half: the match on the event (lines 327-523)
EventPart ==
    \/ LoopDestroyed
    \/ \E needs_repaint \in BOOLEAN : RedrawRequested(needs_repaint)
    \/ UserEvent
    \/ CloseRequested
    \/ EnterKey
    \/ TabKey
    \/ GreaterKey
    \/ LessKey
    \/ \E c \in Chars : CharKey(c)
    \/ OtherEvent

\* the loop as event_loop.run_return schedules it: greetd answers every
\* request and the answer is dispatched between two calls of the closure
\* (strong fairness: the dispatcher can only run between calls), the closure
\* keeps being called and every call runs to its end; which event a call is
\* for is up to the user and the window system
FairSpec ==
    /\ Spec
    /\ SF_vars(StreamDispatch)
    /\ WF_vars(ResponsePart)
    /\ WF_vars(EventPart)

\* the loop when event_loop.drm_calloop_handle() is None: the block of lines
\* 198-243 is skipped, no stream dispatcher exists, and every call of the
\* closure finds the slot empty
NextNoHandle == NoResponse \/ EventPart

\* that loop as event_loop.run_return schedules it: the closure keeps being
\* called and every call runs to its end
FairSpecNoHandle ==
    /\ Init
    /\ [][NextNoHandle]_vars
    /\ WF_vars(NoResponse)
    /\ WF_vars(EventPart)

\* the loop with a peer that also sends responses nobody asked for
NextUnrequested == Next \/ StreamDispatchUnrequested

SpecUnrequested == Init /\ [][NextUnrequested]_vars

\* ---------------------------------------------------------------- claims
\* the types of the requests of a sequence
Types(reqs) == [i \in 1..Len(reqs) |-> reqs[i].type]

\* C1: one-in-flight discipline: the number of requests whose response has
\* not been received and processed is always 0 or 1.
C1_OneInFlight == Outstanding <= 1

\* C2: the step that processes an AuthMessage of kind Info or Error writes
\* exactly one post_auth_message_response without a response value; the step
\* that processes one of kind Visible or Secret writes no request.
C2_AutoAck ==
    (pc = "event" /\ iterResp.type = "AuthMessage") =>
        /\ auth_message_type = iterResp.kind
        /\ IF iterResp.kind \in {"Info", "Error"}
           THEN /\ lastSent = <<PostAuthMessageResponse(FALSE, <<>>)>>
                /\ stream # <<>>
                /\ stream[Len(stream)] = "post_auth_message_response"
           ELSE lastSent = <<>>

C2_Witness ==
    /\ pc = "event"
    /\ iterResp.type = "AuthMessage"
    /\ iterResp.kind = "Error"
    /\ lastSent = <<PostAuthMessageResponse(FALSE, <<>>)>>
    /\ Outstanding = 1

\* C3: after an Error of kind AuthError is processed the form is the one the
\* program starts with: password empty, no prompt kind, and without a default
\* identity the username empty and the focus on the username field (with one,
\* the username is the default identity and the focus is on the password).
C3_AuthErrorResets ==
    (pc = "event" /\ iterResp.type = "Error" /\ iterResp.kind = "AuthError") =>
        /\ password = <<>>
        /\ auth_message_type = "None"
        /\ pending_focus
        /\ defaults = NoDefault => (username = <<>> /\ focused = "Username")
        /\ defaults # NoDefault => (username = defaults /\ focused = "Password")

C3_Witness ==
    /\ pc = "event"
    /\ iterResp.type = "Error"
    /\ iterResp.kind = "AuthError"
    /\ ~iterResp.launch
    /\ defaults = NoDefault
    /\ username = <<>>
    /\ password = <<>>
    /\ focused = "Username"
    /\ egui_focus = "password"

\* the requests a start or a restart of the conversation has to write
ConversationStart == IF defaults = NoDefault THEN <<>> ELSE <<CreateSession(defaults)>>

\* C4: with a default identity the program start and every processing of an
\* AuthError write exactly one create_session for that identity and put the
\* focus on the password field; without one neither writes a request, and a
\* create_session is only ever written by '\r' on the username field.
C4_DefaultIdentity ==
    /\ lastSent = ConversationStart
    /\ stream = Types(ConversationStart)
    /\ defaults # NoDefault => focused = "Password"
    /\ [](pc = "event" /\ iterResp.type = "Error" /\ iterResp.kind = "AuthError" =>
            /\ lastSent = ConversationStart
            /\ defaults # NoDefault => focused = "Password")
    /\ [][(Len(stream') > Len(stream) /\ lastSent'[1].type = "create_session") =>
            \/ /\ pc = "idle"
               /\ defaults # NoDefault
               /\ response_queue.type = "Error"
               /\ response_queue.kind = "AuthError"
               /\ lastSent' = <<CreateSession(defaults)>>
            \/ /\ pc = "event"
               /\ focused = "Username"
               /\ lastSubmit' = "Username"]_vars

C4_Witness ==
    /\ pc = "event"
    /\ iterResp.type = "Error"
    /\ iterResp.kind = "AuthError"
    /\ defaults # NoDefault
    /\ lastSent = <<CreateSession(defaults)>>
    /\ focused = "Password"

\* C5: '\r' on the username field with an empty username writes no request
\* and leaves the focus on the username field.
C5_EmptyUsernameSubmit ==
    [][(pc = "event" /\ lastSubmit' = "Username" /\ username = <<>>) =>
          (lastSent' = <<>> /\ stream' = stream /\ focused' = "Username")]_vars

\* C6: '\r' on the password field with an empty username writes no request
\* and moves the focus to the username field.
C6_PasswordSubmitWithoutUsername ==
    (pc = "idle" /\ lastSubmit = "Password" /\ username = <<>>) =>
        (lastSent = <<>> /\ focused = "Username" /\ pending_focus)

C6_Witness ==
    /\ pc = "idle"
    /\ lastSubmit = "Password"
    /\ username = <<>>
    /\ lastSent = <<>>
    /\ focused = "Username"

\* C7: a start_session is written only by the step that processes a Success
\* answering create_session or post_auth_message_response, and never while
\* another request is unanswered: after it the start_session is the only
\* request without a response.
C7_StartOnlyOnSuccess ==
    (\E i \in 1..Len(lastSent) : lastSent[i].type = "start_session") =>
        /\ pc = "event"
        /\ iterResp.type = "Success"
        /\ ~iterResp.launch
        /\ Outstanding = 1

\* C8: every start_session carries exactly the wrapper path followed by the
\* exec of the session at the current session index.
C8_StartCommand ==
    \A i \in 1..Len(lastSent) :
        lastSent[i].type = "start_session" =>
            /\ lastSent[i].val = <<Wrapper, environments[current_env_index + 1]>>
            /\ current_env_index \in 0..(NumEnv - 1)

C8_Witness ==
    /\ lastSent = <<StartSession(<<Wrapper, environments[NumEnv]>>)>>
    /\ current_env_index = NumEnv - 1
    /\ pc = "event"

\* C9: the call of the closure that processes Response::Finish ends with the
\* exit request in effect, whatever event it handles.
C9_FinishExits ==
    [][(pc = "event" /\ iterResp.type = "Finish" /\ pc' \in {"idle", "done"}) =>
          (control_flow' = "Exit" /\ exiting')]_vars

\* C10: the step that processes a response to start_session other than its
\* success writes no request.
C10_LaunchFailureIsFinal ==
    (pc = "event" /\ iterResp.launch /\ iterResp.type # "Finish") =>
        lastSent = <<>>

\* C11: the step that processes an Error of kind AuthError leaves `stream`
\* bound to a connection other than the one the error was received on, so
\* that the create_session it writes, and every later one, travels on a
\* new connection.
C11_ReconnectOnAuthError ==
    [][(pc = "idle" /\ response_queue.type = "Error" /\ response_queue.kind = "AuthError"
          /\ pc' = "event") =>
          connection' # connection]_vars

\* C12: once an Error of kind Error answering create_session or
\* post_auth_message_response has been processed no request is written any
\* more: the event part of the call of the closure that processed it writes
\* none, whatever the event.
C12_GenericErrorIsFinal ==
    [][(pc = "event" /\ iterResp.type = "Error" /\ iterResp.kind = "Error"
          /\ ~iterResp.launch) =>
          lastSent' = <<>>]_vars

\* C13: the step that processes a response that arrived while no request
\* was unanswered makes no normal transition: it writes no request (no
\* start_session, no acknowledgment, no create_session), leaves the form as
\* it is (no reset, no prompt shown) and does not ask for the exit.
C13_UnrequestedResponseIgnored ==
    [][(pc = "idle" /\ response_queue.unrequested /\ pc' = "event") =>
          (lastSent' = <<>> /\ UNCHANGED <<form, control_flow>>)]_vars

\* C14: whenever the process has terminated, by event_loop.run_return
\* returning (launch success, window close) or by the stream dispatcher
\* finding a second response in the slot, raw mode has been disabled.
C14_RawModeRestored ==
    (pc = "done" \/ (pc = "panicked" /\ response_queue # None)) => ~raw_mode

\* C15: '\r' on the username field, with the keyboard focus in the username
\* text edit, writes exactly one create_session whose username is everything
\* typed so far: the text already in the buffer followed by the characters
\* typed since the last frame.
C15_UsernameIsWhatWasTyped ==
    [][(pc = "event" /\ focused = "Username" /\ egui_focus = "username"
          /\ lastSubmit' = "Username") =>
          lastSent' = <<CreateSession(username \o egui_events)>>]_vars

\* C16: a post_auth_message_response that carries a value is written only
\* while a prompt of kind Visible or Secret is the current one.
C16_ReplyOnlyToPrompt ==
    (\E i \in 1..Len(lastSent) :
        lastSent[i].type = "post_auth_message_response" /\ lastSent[i].some) =>
        auth_message_type \in {"Visible", "Secret"}

\* C17: with a default identity the create_session of a conversation is
\* written by the program start and by the AuthError arm, so no keystroke
\* writes a create_session: one written by '\r' would be a second one on
\* the connection with no AuthError processed since the previous one.
C17_OneSessionPerConversation ==
    [][(pc = "event" /\ defaults # NoDefault) =>
          \A i \in 1..Len(lastSent') : lastSent'[i].type # "create_session"]_vars

\* C18: a conversation that reaches the final success completes: once the
\* success of start_session (Response::Finish) has been processed, the
\* process terminates.
C18_TerminatesAfterFinish ==
    (pc = "event" /\ iterResp.type = "Finish") ~> (pc \in {"done", "panicked"})

\* C19: the response slot is empty whenever the stream dispatcher delivers
\* a response.
C19_SlotEmptyAtDispatch ==
    [][(pc = "idle" /\ stream # <<>> /\ stream' = Tail(stream)) =>
          response_queue = None]_vars

\* C20: the reply to a prompt holds only what was typed in answer to it: a
\* '\r' on the password field handled by the very call of the closure that
\* took a Visible or Secret prompt, before anything could be typed for it,
\* writes the empty reply.
C20_ReplyIsForThisPrompt ==
    [][(pc = "event" /\ iterResp.type = "AuthMessage"
          /\ iterResp.kind \in {"Visible", "Secret"}
          /\ lastSubmit' = "Password" /\ lastSent' # <<>>) =>
          lastSent' = <<PostAuthMessageResponse(TRUE, <<>>)>>]_vars

\* C21: every response is eventually taken from the slot: whenever a request
\* is unanswered, a call of the closure eventually takes a response (unless
\* the process has ended before).
C21_EveryResponseTaken ==
    (stream # <<>>) ~> (iterResp # None \/ pc \in {"done", "panicked"})

\* C22: the session index is always within [0, NumEnv) and current_env is
\* the entry at that index; no key press fails, and a key press that moves
\* the index moves it by one, wrapping at both ends.
C22_PickerInvariant ==
    /\ [](/\ current_env_index \in 0..(NumEnv - 1)
          /\ current_env = environments[current_env_index + 1])
    /\ [][pc = "event" =>
            /\ pc' # "panicked"
            /\ current_env_index' \in {current_env_index,
                                      (current_env_index + 1) % NumEnv,
                                      (current_env_index - 1) % NumEnv}]_vars

====
